---- MODULE Spec2Model ----
(***************************************************************************)
(* The pin connection protocol of the shenzhen-go graph editor: the pins,  *)
(* the channels that join them, the validator checkConnectionTo, the local *)
(* mutations connectTo / disconnect, the pointer handlers dragStart, drag, *)
(* drop, and the goroutines that carry the remote calls.                   *)
(***************************************************************************)
EXTENDS Integers, FiniteSets, Sequences, Bags, TLC

(* ------------------------------ bounds -------------------------------- *)

\* how many pins of PinTable the loaded graph has
NumPins == 4

\* how many started goroutines may be waiting to run at once
MaxPending == 1

\* how many CreateNode calls are made
MaxCalls == 4

(* --------------------------- program constants ------------------------ *)

snapQuad == 144

\* the nil pin and the nil channel
Nil == 0

\* no drag item
NoItem == [kind |-> "nil", id |-> Nil]

\* the type of a channel object that is garbage
NoType == ""

\* The pins of the loaded graph: Pin.Name, Pin.Type, Pin.input, Pin.node.
PinTable ==
  << [node |-> "Gen", Name |-> "A", Type |-> "int", input |-> FALSE],
     [node |-> "Sum", Name |-> "B", Type |-> "int", input |-> TRUE],
     [node |-> "Gen", Name |-> "C", Type |-> "int", input |-> TRUE],
     [node |-> "Gen", Name |-> "D", Type |-> "str", input |-> TRUE],
     [node |-> "Sum", Name |-> "E", Type |-> "str", input |-> FALSE],
     [node |-> "Gen", Name |-> "F", Type |-> "int", input |-> FALSE] >>

AllPins == 1 .. NumPins

\* identities of *Channel objects; a new channel takes one no live reference holds
ChanIds == 1 .. ((NumPins \div 2) + MaxPending + 1)

\* a Point is a *Pin or a *Channel
PinPt(p) == [kind |-> "pin", id |-> p]

ChanPt(c) == [kind |-> "channel", id |-> c]

\* cursor positions of pointer events, diagram coordinates
CursorPos == { <<100, 80>> }

\* squared distances nearestPoint may report, on both sides of snapQuad
Dists == { snapQuad - 1, snapQuad, snapQuad + 1 }

(* ------------------------------- errors ------------------------------- *)

NoErr == [kind |-> "nil", detail |-> << >>]

ErrTypes(a, b) == [kind |-> "mismatching types", detail |-> <<a, b>>]

ErrDirection == [kind |-> "both pins have the same direction", detail |-> << >>]

ErrGoroutine == [kind |-> "both pins are on the same goroutine", detail |-> << >>]

ErrInOut == [kind |-> "must connect at least one input and one output", detail |-> << >>]

\* the error a failed remote call returns
ErrRPC == [kind |-> "rpc error", detail |-> << >>]

(* ------------------------------- state -------------------------------- *)

VARIABLES
  ch,          \* Pin.ch: the channel a pin is attached to, or Nil
  Pins,        \* Channel.Pins: the pin set of each channel object
  Channels,    \* graph.Channels: the channels of the graph, by name
  chanType,    \* Channel.channel.Type
  created,     \* Channel.created
  cp,          \* Channel.p: the pin a dragged channel is snapped to
  dragItem,    \* diagram.dragItem: Nil, a pin or a channel
  errLabel,    \* the error label: hidden, or shown with a text at a position
  goroutines,  \* goroutines started with `go` that have not run yet
  crashed,     \* a goroutine panicked
  remote,      \* the remote authority's graph: the channel each pin is on
  Nodes,       \* c.graph.Nodes: the names that are keys of the node map
  calls,       \* CreateNode calls waiting for the remote authority's answer
  made,        \* the names of the nodes CreateNode has returned
  started,     \* how many calls of the graph controller have begun
  graph,       \* c.graph: Name, PackagePath and IsCommand of the local graph
  saves,       \* SetGraphProperties requests waiting for their answer
  returned     \* what the graph controller's last finished call returned

vars == << ch, Pins, Channels, chanType, created, cp, dragItem, errLabel,
           goroutines, crashed, remote, Nodes, calls, made, started,
           graph, saves, returned >>

\* the state of the graph controller
nodeVars == << Nodes, calls, made, started, graph, saves, returned >>

\* the state of the pins, the channels and the diagram
pinVars == << ch, Pins, Channels, chanType, created, cp, dragItem, errLabel,
              goroutines, crashed, remote >>

\* the whole state as one value, so that the handlers compose as functions
Cur ==
  [ch |-> ch, Pins |-> Pins, Channels |-> Channels, chanType |-> chanType,
   created |-> created, cp |-> cp, dragItem |-> dragItem,
   errLabel |-> errLabel, goroutines |-> goroutines, crashed |-> crashed,
   remote |-> remote]

\* the text of the error label: a prefix and an error
Text(prefix, err) == [prefix |-> prefix, err |-> err]

Hidden == [shown |-> FALSE, text |-> Text("", NoErr), x |-> 0, y |-> 0]

(* ------------------------------ helpers ------------------------------- *)

\* diagram.setError(err, x, y): show the label at (x+4, y-36)
setError(G, text, x, y) ==
  [G EXCEPT !.errLabel = [shown |-> TRUE, text |-> text, x |-> x + 4, y |-> y - 36]]

\* diagram.clearError(): hide the label (a hidden label's text is never read)
clearError(G) == [G EXCEPT !.errLabel = Hidden]

\* `go f()`: one more goroutine waiting to run
spawn(G, g) == [G EXCEPT !.goroutines = @ (+) SetToBag({g})]

\* the remote authority's name for a channel the client no longer has
Gone == 0 - 1

\* the channel objects something still refers to
Referenced(G) ==
  G.Channels
    \cup ({ G.ch[p] : p \in AllPins } \ {Nil})
    \cup ({ g.ch : g \in BagToSet(G.goroutines) } \ {Nil})
    \cup (IF G.dragItem.kind = "channel" THEN {G.dragItem.id} ELSE {})

\* a channel object nothing refers to any more is garbage: forget its fields
collect(G) ==
  LET live == Referenced(G) IN
  [G EXCEPT
     !.Pins     = [c \in ChanIds |-> IF c \in live THEN @[c] ELSE {}],
     !.chanType = [c \in ChanIds |-> IF c \in live THEN @[c] ELSE NoType],
     !.created  = [c \in ChanIds |-> IF c \in live THEN @[c] ELSE FALSE],
     !.cp       = [c \in ChanIds |-> IF c \in live THEN @[c] ELSE Nil],
     !.remote   = [p \in AllPins |->
                     IF @[p] \in live \cup {Nil} THEN @[p] ELSE Gone]]

(* ----------------------------- validator ------------------------------ *)

\* Pin.checkConnectionTo, case *Channel
checkConnectionToChannel(G, p, c) ==
  IF G.chanType[c] # PinTable[p].Type
    THEN ErrTypes(PinTable[p].Type, G.chanType[c])
  ELSE IF \A r \in G.Pins[c] : PinTable[r].input = PinTable[p].input
    THEN ErrInOut
  ELSE NoErr

\* checkConnectionTo with both type comparisons forgotten
checkConnectionTo_NoTypes(G, p, q) ==
  LET onChannel(c) ==
        IF \A r \in G.Pins[c] : PinTable[r].input = PinTable[p].input
          THEN ErrInOut ELSE NoErr
  IN IF q.kind = "pin"
       THEN IF G.ch[q.id] # Nil THEN onChannel(G.ch[q.id])
            ELSE IF PinTable[p].input = PinTable[q.id].input THEN ErrDirection
            ELSE IF PinTable[p].node = PinTable[q.id].node THEN ErrGoroutine
            ELSE NoErr
       ELSE onChannel(q.id)

\* checkConnectionTo with the direction comparison inverted
checkConnectionTo_DirInverted(G, p, q) ==
  IF q.kind = "pin"
    THEN IF PinTable[q.id].Type # PinTable[p].Type
           THEN ErrTypes(PinTable[p].Type, PinTable[q.id].Type)
         ELSE IF G.ch[q.id] # Nil
           THEN checkConnectionToChannel(G, p, G.ch[q.id])
         ELSE IF PinTable[p].input # PinTable[q.id].input
           THEN ErrDirection
         ELSE IF PinTable[p].node = PinTable[q.id].node
           THEN ErrGoroutine
         ELSE NoErr
    ELSE checkConnectionToChannel(G, p, q.id)

\* checkConnectionTo with the same-node comparison forgotten
checkConnectionTo_NoNode(G, p, q) ==
  IF q.kind = "pin"
    THEN IF PinTable[q.id].Type # PinTable[p].Type
           THEN ErrTypes(PinTable[p].Type, PinTable[q.id].Type)
         ELSE IF G.ch[q.id] # Nil
           THEN checkConnectionToChannel(G, p, G.ch[q.id])
         ELSE IF PinTable[p].input = PinTable[q.id].input
           THEN ErrDirection
         ELSE NoErr
    ELSE checkConnectionToChannel(G, p, q.id)

\* checkConnectionTo with the direction comparison forgotten
checkConnectionTo_NoDirection(G, p, q) ==
  IF q.kind = "pin"
    THEN IF PinTable[q.id].Type # PinTable[p].Type
           THEN ErrTypes(PinTable[p].Type, PinTable[q.id].Type)
         ELSE IF G.ch[q.id] # Nil
           THEN checkConnectionToChannel(G, p, G.ch[q.id])
         ELSE IF PinTable[p].node = PinTable[q.id].node
           THEN ErrGoroutine
         ELSE NoErr
    ELSE checkConnectionToChannel(G, p, q.id)

\* checkConnectionTo with the type comparison made after the direction one
checkConnectionTo_TypeLate(G, p, q) ==
  IF q.kind = "pin"
    THEN IF G.ch[q.id] # Nil
           THEN checkConnectionToChannel(G, p, G.ch[q.id])
         ELSE IF PinTable[p].input = PinTable[q.id].input
           THEN ErrDirection
         ELSE IF PinTable[q.id].Type # PinTable[p].Type
           THEN ErrTypes(PinTable[p].Type, PinTable[q.id].Type)
         ELSE IF PinTable[p].node = PinTable[q.id].node
           THEN ErrGoroutine
         ELSE NoErr
    ELSE checkConnectionToChannel(G, p, q.id)

\* Pin.checkConnectionTo(q Point)
checkConnectionTo(G, p, q) ==
  IF q.kind = "pin"
    THEN IF PinTable[q.id].Type # PinTable[p].Type
           THEN ErrTypes(PinTable[p].Type, PinTable[q.id].Type)
         ELSE IF G.ch[q.id] # Nil
           THEN checkConnectionToChannel(G, p, G.ch[q.id])
         ELSE IF PinTable[p].input = PinTable[q.id].input
           THEN ErrDirection
         ELSE IF PinTable[p].node = PinTable[q.id].node
           THEN ErrGoroutine
         ELSE NoErr
    ELSE checkConnectionToChannel(G, p, q.id)

(* ------------------------- local graph mutation ----------------------- *)

\* disconnect that leaves the last pin of a deleted channel pointing at it
disconnect_KeepsLast(G, p) ==
  IF G.ch[p] = Nil THEN G
  ELSE
    LET c    == G.ch[p]
        G1   == spawn(G, [fn |-> "reallyDisconnect", pin |-> p, ch |-> Nil])
        rest == G1.Pins[c] \ {p}
        G2   == [G1 EXCEPT !.Pins[c] = rest]
        G3   == IF Cardinality(rest) < 2
                  THEN [G2 EXCEPT !.Channels = @ \ {c}]
                  ELSE G2
    IN [G3 EXCEPT !.ch[p] = Nil]

\* disconnect that deletes the channel while two pins remain
disconnect_OffByOne(G, p) ==
  IF G.ch[p] = Nil THEN G
  ELSE
    LET c    == G.ch[p]
        G1   == spawn(G, [fn |-> "reallyDisconnect", pin |-> p, ch |-> Nil])
        rest == G1.Pins[c] \ {p}
        G2   == [G1 EXCEPT !.Pins[c] = rest]
        G3   == IF Cardinality(rest) <= 2
                  THEN [G2 EXCEPT
                          !.ch = [q \in AllPins |-> IF q \in rest THEN Nil ELSE @[q]],
                          !.Channels = @ \ {c}]
                  ELSE G2
    IN [G3 EXCEPT !.ch[p] = Nil]

\* Pin.disconnect()
disconnect(G, p) ==
  IF G.ch[p] = Nil THEN G
  ELSE
    LET c    == G.ch[p]
        G1   == spawn(G, [fn |-> "reallyDisconnect", pin |-> p, ch |-> Nil])
        rest == G1.Pins[c] \ {p}
        G2   == [G1 EXCEPT !.Pins[c] = rest]
        G3   == IF Cardinality(rest) < 2
                  THEN [G2 EXCEPT
                          !.ch = [q \in AllPins |-> IF q \in rest THEN Nil ELSE @[q]],
                          !.Channels = @ \ {c}]
                  ELSE G2
    IN [G3 EXCEPT !.ch[p] = Nil]

\* View.createChannel(p, q): a new channel object holding p and q
createChannel(G, p, q) ==
  LET c == CHOOSE n \in ChanIds \ Referenced(G) :
             \A m \in ChanIds \ Referenced(G) : n <= m
  IN [ id |-> c,
       G  |-> [G EXCEPT !.Pins[c] = {p, q},
                        !.chanType[c] = PinTable[p].Type,
                        !.created[c] = FALSE,
                        !.cp[c] = Nil] ]

\* Pin.connectTo, case *Channel
connectToChannel(G, p, c) ==
  LET G1 == IF G.ch[p] # Nil /\ G.ch[p] # c THEN disconnect(G, p) ELSE G
  IN [G1 EXCEPT !.ch[p] = c, !.Pins[c] = @ \cup {p}]

\* Pin.connectTo(q Point)
connectTo(G, p, q) ==
  IF q.kind = "pin"
    THEN LET G1 == IF G.ch[p] # Nil /\ G.ch[p] # G.ch[q.id]
                     THEN disconnect(G, p) ELSE G
         IN IF G1.ch[q.id] # Nil
              THEN connectToChannel(G1, p, G1.ch[q.id])
              ELSE LET new == createChannel(G1, p, q.id)
                   IN [new.G EXCEPT !.ch[p] = new.id,
                                    !.ch[q.id] = new.id,
                                    !.Channels = @ \cup {new.id}]
    ELSE connectToChannel(G, p, q.id)

(* ------------------------- channel as drag item ----------------------- *)

\* Channel.commit(): a provisional channel is sent to the remote authority
commit(G, c) ==
  IF G.created[c] THEN G
  ELSE spawn(G, [fn |-> "reallyCreate", pin |-> Nil, ch |-> c])

\* Channel.dragStart(e): the channel becomes the drag item
channelDragStart(G, c) == [G EXCEPT !.dragItem = ChanPt(c)]

\* Channel.drag(e): the drag move with a channel as origin; the nearest point
\* q at squared distance d is snapped to when it is a free pin the validator
\* accepts, and a pin snapped by an earlier move is let go
channelDrag(G, c, q, d, pos) ==
  LET p  == IF q.kind = "pin" THEN q.id ELSE Nil
      G1 == IF G.cp[c] # Nil /\ (G.cp[c] # p \/ d >= snapQuad)
              THEN [disconnect(G, G.cp[c]) EXCEPT !.cp[c] = Nil]
              ELSE G
  IN IF p # Nil /\ p = G.cp[c] /\ d < snapQuad THEN G
     ELSE IF d >= snapQuad \/ q = ChanPt(c) \/ (p # Nil /\ G1.ch[p] = c)
       THEN clearError(G1)
     ELSE IF p = Nil \/ G1.ch[p] # Nil
       THEN setError(G1, Text("Can't connect different channels together", NoErr),
                     pos[1], pos[2])
     ELSE IF checkConnectionTo(G1, p, ChanPt(c)) # NoErr
       THEN setError(G1, Text("Can't connect: ", checkConnectionTo(G1, p, ChanPt(c))),
                     pos[1], pos[2])
     ELSE clearError([connectTo(G1, p, ChanPt(c)) EXCEPT !.cp[c] = p])

\* Channel.drop(e)
channelDrop(G, c) == [commit(clearError(G), c) EXCEPT !.cp[c] = Nil]

(* --------------------------- pin as drag item -------------------------- *)


\* a dragStart that drags the pressed pin whether it is attached or not
dragStart_KeepsAttached(G, p) == [G EXCEPT !.dragItem = PinPt(p)]

\* Pin.dragStart(e)
RECURSIVE dragStart(_, _)
dragStart(G, p) ==
  IF G.ch[p] # Nil
    THEN LET c  == G.ch[p]
             G1 == disconnect(G, p)
         IN IF Cardinality(G1.Pins[c]) > 1
              THEN channelDragStart(G1, c)
            ELSE IF G1.Pins[c] # {}
              THEN dragStart(G1, CHOOSE q \in G1.Pins[c] : TRUE)
            ELSE [G1 EXCEPT !.dragItem = PinPt(p)]
    ELSE [G EXCEPT !.dragItem = PinPt(p)]

\* noSnap, the closure of Pin.drag
noSnap(G, p) == IF G.ch[p] # Nil THEN disconnect(G, p) ELSE G

\* Pin.drag(e): q and d are what graph.nearestPoint reports for the cursor
drag(G, p, q, d, pos) ==
  IF q = PinPt(p) \/ d >= snapQuad
    THEN noSnap(clearError(G), p)
  ELSE IF checkConnectionTo(G, p, q) # NoErr
    THEN noSnap(setError(G, Text("Can't connect: ", checkConnectionTo(G, p, q)),
                         pos[1], pos[2]), p)
  ELSE clearError(connectTo(G, p, q))


\* a drop that sends ConnectPin for every channel and commits none
drop_ConnectsUncreated(G, p) ==
  LET G1 == clearError(G)
  IN IF G1.ch[p] = Nil
       THEN spawn(G1, [fn |-> "reallyDisconnect", pin |-> p, ch |-> Nil])
       ELSE spawn(G1, [fn |-> "reallyConnect", pin |-> p, ch |-> Nil])

\* a drop that leaves a pin put on a created channel to the channel's commit
drop_NeverConnects(G, p) ==
  LET G1 == clearError(G)
  IN IF G1.ch[p] = Nil
       THEN spawn(G1, [fn |-> "reallyDisconnect", pin |-> p, ch |-> Nil])
       ELSE commit(G1, G1.ch[p])

\* Pin.drop(e)
drop(G, p) ==
  LET G1 == clearError(G)
  IN IF G1.ch[p] = Nil
       THEN spawn(G1, [fn |-> "reallyDisconnect", pin |-> p, ch |-> Nil])
       ELSE LET G2 == IF G1.created[G1.ch[p]]
                        THEN spawn(G1, [fn |-> "reallyConnect", pin |-> p, ch |-> Nil])
                        ELSE G1
            IN commit(G2, G2.ch[p])

(* ---------------------------- pointer events --------------------------- *)

\* draggable.drag on the current drag item
itemDrag(G, q, d, pos) ==
  IF G.dragItem.kind = "pin"
    THEN drag(G, G.dragItem.id, q, d, pos)
    ELSE channelDrag(G, G.dragItem.id, q, d, pos)

\* draggable.drop on the current drag item
itemDrop(G) ==
  IF G.dragItem.kind = "pin"
    THEN drop(G, G.dragItem.id)
    ELSE channelDrop(G, G.dragItem.id)

\* mouseMove(e)
mouseMove(G, q, d, pos) == IF G.dragItem = NoItem THEN G ELSE itemDrag(G, q, d, pos)

\* a mouseUp that drops the item as the last move left it
mouseUp_NoReevaluate(G, q, d, pos) ==
  IF G.dragItem = NoItem THEN G
  ELSE [itemDrop(G) EXCEPT !.dragItem = NoItem]

\* mouseUp(e)
mouseUp(G, q, d, pos) ==
  IF G.dragItem = NoItem THEN G
  ELSE [itemDrop(itemDrag(G, q, d, pos)) EXCEPT !.dragItem = NoItem]

\* the points graph.nearestPoint ranges over: every pin, every channel of the graph
Points(G) == { PinPt(p) : p \in AllPins } \cup { ChanPt(c) : c \in G.Channels }

(* ------------------------------ goroutines ----------------------------- *)

\* the pin a request names by node name and pin name
PinOf(node, name) ==
  CHOOSE p \in AllPins : PinTable[p].node = node /\ PinTable[p].Name = name

\* pb.ConnectPinRequest of Pin.reallyConnect (the graph is the same in all)
ConnectPinRequest(G, p) ==
  [Node |-> PinTable[p].node, Pin |-> PinTable[p].Name, Channel |-> G.ch[p]]

\* pb.DisconnectPinRequest of Pin.reallyDisconnect
DisconnectPinRequest(G, p) ==
  [Node |-> PinTable[p].node, Pin |-> PinTable[p].Name]

\* the remote authority carries out connectPin(graph, node, pin, channel)
remoteConnectPin(G, req) ==
  [G EXCEPT !.remote[PinOf(req.Node, req.Pin)] = req.Channel]

\* the remote authority carries out disconnectPin(graph, node, pin)
remoteDisconnectPin(G, req) ==
  [G EXCEPT !.remote[PinOf(req.Node, req.Pin)] = Nil]

\* the remote authority acknowledges a provisional channel with its pins
remoteCreate(G, c) ==
  [G EXCEPT !.remote = [p \in AllPins |-> IF p \in G.Pins[c] THEN c ELSE @[p]]]

\* Pin.reallyDisconnect(): the DisconnectPin call and its answer
reallyDisconnect(G, p, ok) ==
  IF ok THEN remoteDisconnectPin(G, DisconnectPinRequest(G, p)) ELSE setError(G, Text("Couldn't disconnect: ", ErrRPC), 0, 0)

\* a reallyConnect that rolls the pin back when the call fails
reallyConnect_Reverts(G, p, ok) ==
  IF G.ch[p] = Nil THEN [G EXCEPT !.crashed = TRUE]
  ELSE IF ok THEN remoteConnectPin(G, ConnectPinRequest(G, p))
  ELSE disconnect(setError(G, Text("Couldn't connect: ", ErrRPC), 0, 0), p)

\* Pin.reallyConnect(): the ConnectPin call and its answer; p.ch is read here
reallyConnect(G, p, ok) ==
  IF G.ch[p] = Nil THEN [G EXCEPT !.crashed = TRUE]
  ELSE IF ok THEN remoteConnectPin(G, ConnectPinRequest(G, p))
  ELSE setError(G, Text("Couldn't connect: ", ErrRPC), 0, 0)

\* the remote creation of a provisional channel and its answer
reallyCreate(G, c, ok) ==
  IF ok THEN [remoteCreate(G, c) EXCEPT !.created[c] = TRUE]
  ELSE setError(G, Text("Couldn't create: ", ErrRPC), 0, 0)

run(G, g, ok) ==
  LET G1 == [G EXCEPT !.goroutines = @ (-) SetToBag({g})]
  IN CASE g.fn = "reallyDisconnect" -> reallyDisconnect(G1, g.pin, ok)
       [] g.fn = "reallyConnect"    -> reallyConnect(G1, g.pin, ok)
       [] g.fn = "reallyCreate"     -> reallyCreate(G1, g.ch, ok)

(* ------------------------------ the machine ---------------------------- *)

Init ==
  /\ ch = [p \in AllPins |-> Nil]
  /\ Pins = [c \in ChanIds |-> {}]
  /\ Channels = {}
  /\ chanType = [c \in ChanIds |-> NoType]
  /\ created = [c \in ChanIds |-> FALSE]
  /\ cp = [c \in ChanIds |-> Nil]
  /\ dragItem = NoItem
  /\ errLabel = Hidden
  /\ goroutines = EmptyBag
  /\ crashed = FALSE
  /\ remote = [p \in AllPins |-> Nil]
  /\ Nodes = {}
  /\ calls = EmptyBag
  /\ made = EmptyBag
  /\ started = 0
  /\ graph = [Name |-> "", PackagePath |-> "", IsCommand |-> FALSE]
  /\ saves = EmptyBag
  /\ returned = [op |-> "", err |-> FALSE, node |-> ""]

\* the state after a handler: its result, garbage collected, with at most n
\* goroutines waiting
BecomeWithin(G, n) ==
  \E N \in {collect(G)} :
  /\ BagCardinality(N.goroutines) <= n
  /\ ch' = N.ch
  /\ Pins' = N.Pins
  /\ Channels' = N.Channels
  /\ chanType' = N.chanType
  /\ created' = N.created
  /\ cp' = N.cp
  /\ dragItem' = N.dragItem
  /\ errLabel' = N.errLabel
  /\ goroutines' = N.goroutines
  /\ crashed' = N.crashed
  /\ remote' = N.remote
  /\ UNCHANGED nodeVars

\* the state after a handler where the remote authority's graph is not followed:
\* only the answer of a call, success or failure, reaches the client
Become(G) == BecomeWithin([G EXCEPT !.remote = remote], MaxPending)

\* mousedown on a pin; the host delivers a press only after the release of the
\* previous one, so no drag is in progress
DragStart ==
  /\ ~crashed
  /\ dragItem = NoItem
  /\ \E p \in AllPins : Become(dragStart(Cur, p))

\* mousemove on the diagram
MouseMove ==
  /\ ~crashed
  /\ dragItem # NoItem
  /\ \E q \in Points(Cur), d \in Dists, pos \in CursorPos :
       Become(mouseMove(Cur, q, d, pos))

\* mouseup on the diagram
MouseUp ==
  /\ ~crashed
  /\ dragItem # NoItem
  /\ \E q \in Points(Cur), d \in Dists, pos \in CursorPos :
       Become(mouseUp(Cur, q, d, pos))

\* the scheduler runs a waiting goroutine; its remote call succeeds or fails
RunGoroutine ==
  /\ ~crashed
  /\ \E g \in BagToSet(goroutines), ok \in BOOLEAN : Become(run(Cur, g, ok))

Next == DragStart \/ MouseMove \/ MouseUp \/ RunGoroutine

Spec == Init /\ [][Next]_vars

(* ------------- the machine with the remote authority's graph ----------- *)

\* one more goroutine may wait than in Spec, so that two calls can overtake
Racing == MaxPending + 1

DragStartRemote ==
  /\ ~crashed
  /\ dragItem = NoItem
  /\ \E p \in AllPins : BecomeWithin(dragStart(Cur, p), Racing)

MouseMoveRemote ==
  /\ ~crashed
  /\ dragItem # NoItem
  /\ \E q \in Points(Cur), d \in Dists, pos \in CursorPos :
       BecomeWithin(mouseMove(Cur, q, d, pos), Racing)

MouseUpRemote ==
  /\ ~crashed
  /\ dragItem # NoItem
  /\ \E q \in Points(Cur), d \in Dists, pos \in CursorPos :
       BecomeWithin(mouseUp(Cur, q, d, pos), Racing)

\* the scheduler runs any waiting goroutine; every remote call succeeds
RunRemote ==
  /\ ~crashed
  /\ \E g \in BagToSet(goroutines) : BecomeWithin(run(Cur, g, TRUE), Racing)

NextRemote == DragStartRemote \/ MouseMoveRemote \/ MouseUpRemote \/ RunRemote

SpecRemote == Init /\ [][NextRemote]_vars

(* --------------------------- node creation ----------------------------- *)

\* the part types nodes are created from
PartTypes == {"Gen", "Sum"}

Digit == << "0", "1", "2", "3", "4", "5", "6", "7", "8", "9" >>

\* strconv.Itoa(i) for i >= 0
RECURSIVE Itoa(_)
Itoa(i) == IF i < 10 THEN Digit[i + 1] ELSE Itoa(i \div 10) \o Digit[(i % 10) + 1]

\* CreateNode's loop: the first of partType, "partType 2", "partType 3", ...
\* that is not a key of the node map
RECURSIVE inventName(_, _, _, _)
inventName(nodes, partType, name, i) ==
  IF name \notin nodes THEN name
  ELSE inventName(nodes, partType, partType \o " " \o Itoa(i), i + 1)

\* graphController.CreateNode up to its remote call: the name is invented and
\* the request is sent; the node map is not written
CreateNode ==
  /\ started < MaxCalls
  /\ started' = started + 1
  /\ \E partType \in PartTypes :
       calls' = calls (+) SetToBag({[PartType |-> partType,
                                     Name |-> inventName(Nodes, partType, partType, 2)]})
  /\ UNCHANGED << Nodes, made, graph, saves, returned >>
  /\ UNCHANGED pinVars

\* CreateNode gives up before the remote call: the part cannot be marshalled
CreateNodeMarshalError ==
  /\ started < MaxCalls
  /\ started' = started + 1
  /\ returned' = [op |-> "CreateNode", err |-> TRUE, node |-> ""]
  /\ UNCHANGED << Nodes, calls, made, graph, saves >>
  /\ UNCHANGED pinVars

\* the caller of CreateNode puts the node it got into the node map
addNode(nodes, name) == nodes \cup {name}

\* the remote call of CreateNode returns: with an error no node is returned,
\* otherwise the node is returned and its caller adds it to the graph
CreateNodeReturn ==
  /\ \E call \in BagToSet(calls), ok \in BOOLEAN :
       /\ calls' = calls (-) SetToBag({call})
       /\ made' = IF ok THEN made (+) SetToBag({call.Name}) ELSE made
       /\ Nodes' = IF ok THEN addNode(Nodes, call.Name) ELSE Nodes
       /\ returned' = [op |-> "CreateNode", err |-> ~ok,
                       node |-> IF ok THEN call.Name ELSE ""]
  /\ UNCHANGED << started, graph, saves >>
  /\ UNCHANGED pinVars

\* what the user has typed into the graph's name and package path inputs and
\* set in its command checkbox
FormValues ==
  { [Name |-> "a", PackagePath |-> "x/a", IsCommand |-> TRUE],
    [Name |-> "b", PackagePath |-> "x/b", IsCommand |-> FALSE] }

\* a SaveProperties that writes the graph whatever the remote call answers
SavePropertiesAnswer_WritesFirst(g, req, ok) ==
  [g EXCEPT !.Name = req.Name, !.PackagePath = req.PackagePath,
            !.IsCommand = req.IsCommand]

\* graphController.SaveProperties after c.client.SetGraphProperties: with an
\* error the graph is left alone, otherwise it takes the request's values
SavePropertiesAnswer(g, req, ok) ==
  IF ok THEN [g EXCEPT !.Name = req.Name, !.PackagePath = req.PackagePath,
                       !.IsCommand = req.IsCommand]
  ELSE g

\* graphController.SaveProperties up to its remote call: the request is built
\* from the inputs and sent
SaveProperties ==
  /\ started < MaxCalls
  /\ started' = started + 1
  /\ \E req \in FormValues : saves' = saves (+) SetToBag({req})
  /\ UNCHANGED << Nodes, calls, made, graph, returned >>
  /\ UNCHANGED pinVars

\* the remote call of SaveProperties returns
SavePropertiesReturn ==
  /\ \E req \in BagToSet(saves), ok \in BOOLEAN :
       /\ saves' = saves (-) SetToBag({req})
       /\ graph' = SavePropertiesAnswer(graph, req, ok)
       /\ returned' = [op |-> "SaveProperties", err |-> ~ok, node |-> ""]
  /\ UNCHANGED << Nodes, calls, made, started >>
  /\ UNCHANGED pinVars

NextNodes ==
  \/ CreateNode \/ CreateNodeMarshalError \/ CreateNodeReturn
  \/ SaveProperties \/ SavePropertiesReturn

SpecNodes == Init /\ [][NextNodes]_vars

(* ------------------------------ properties ----------------------------- *)

\* two pins a drag may join as far as the three pairwise rules go
SameType(p, q) == PinTable[p].Type = PinTable[q].Type

SameDirection(p, q) == PinTable[p].input = PinTable[q].input

SameNode(p, q) == PinTable[p].node = PinTable[q].node

\* the label shows the validator's rejection e of a drag move
Rejected(e) == errLabel.shown /\ errLabel.text = Text("Can't connect: ", e)

\* C1: no channel of the graph has exactly two attached pins that belong to
\* the same node (as stated: violated once the third pin of a channel leaves).
C1_NoSameNodePair ==
  \A c \in Channels : \A p, q \in Pins[c] :
    (p # q /\ Pins[c] = {p, q}) => ~SameNode(p, q)

\* C2: every channel of the graph has at least one input pin and at least one
\* output pin attached (as stated: violated once the only pin of one
\* direction leaves a channel of three).
C2_InputAndOutput ==
  \A c \in Channels :
    /\ \E p \in Pins[c] : PinTable[p].input
    /\ \E p \in Pins[c] : ~PinTable[p].input

C4_ChannelType ==
  /\ \A c \in Channels : \A p \in Pins[c] : chanType[c] = PinTable[p].Type
  /\ \A p \in AllPins : \A q \in Points(Cur) :
       checkConnectionTo(Cur, p, q) = NoErr =>
         IF q.kind = "channel"
           THEN chanType[q.id] = PinTable[p].Type
           ELSE /\ PinTable[q.id].Type = PinTable[p].Type
                /\ ch[q.id] # Nil => chanType[ch[q.id]] = PinTable[p].Type

\* C4 witness: a drag has attached a third pin to an existing channel
C4_Witness ==
  \E c \in Channels :
    /\ Cardinality(Pins[c]) = 3
    /\ dragItem.kind = "pin" /\ dragItem.id \in Pins[c]

\* C5: pins of equal type, differing direction and different nodes pass the
\* validator, whether the target is free or attached.
C5_Compatible ==
  \A p, q \in AllPins :
    (SameType(p, q) /\ ~SameDirection(p, q) /\ ~SameNode(p, q))
      => checkConnectionTo(Cur, p, PinPt(q)) = NoErr

\* C5 witness: a drag move has snapped such a pin p onto such a pin q, and q
\* was attached to a channel before
C5_Witness ==
  \E p, q \in AllPins :
    /\ dragItem = PinPt(p)
    /\ SameType(p, q) /\ ~SameDirection(p, q) /\ ~SameNode(p, q)
    /\ ch[p] # Nil /\ ch[p] = ch[q]
    /\ Cardinality(Pins[ch[p]]) = 3

\* C6 as stated: any two pins of one node are rejected as being on the same
\* goroutine, whatever their types, directions and attachment.
C6_SameNodeAlways ==
  \A p, q \in AllPins :
    (p # q /\ SameNode(p, q))
      => checkConnectionTo(Cur, p, PinPt(q)) = ErrGoroutine

\* C6 amended: two pins of one node with equal type and differing direction,
\* the target not attached to a channel, are rejected as being on the same
\* goroutine.
C6_SameNodeFreeTarget ==
  \A p, q \in AllPins :
    (p # q /\ SameNode(p, q) /\ SameType(p, q) /\ ~SameDirection(p, q)
       /\ ch[q] = Nil)
      => checkConnectionTo(Cur, p, PinPt(q)) = ErrGoroutine

\* C6 witness: a drag move met the same-goroutine rejection
C6_Witness ==
  /\ Rejected(ErrGoroutine)
  /\ dragItem.kind = "pin"

\* C7 as stated: any two pins of equal direction on different nodes are
\* rejected as having the same direction, also when the target is attached.
C7_SameDirectionAlways ==
  \A p, q \in AllPins :
    (p # q /\ SameDirection(p, q) /\ ~SameNode(p, q))
      => checkConnectionTo(Cur, p, PinPt(q)) = ErrDirection

\* C7 amended: two pins of equal type and equal direction on different nodes,
\* the target not attached to a channel, are rejected as having the same
\* direction.
C7_SameDirectionFreeTarget ==
  \A p, q \in AllPins :
    (p # q /\ SameDirection(p, q) /\ ~SameNode(p, q) /\ SameType(p, q)
       /\ ch[q] = Nil)
      => checkConnectionTo(Cur, p, PinPt(q)) = ErrDirection

\* C7 witness: a drag move met the same-direction rejection
C7_Witness ==
  /\ Rejected(ErrDirection)
  /\ dragItem.kind = "pin"

\* C8: pins of differing types are rejected for mismatching types, before
\* direction, node and the target's channel are looked at.
C8_TypeFirst ==
  \A p, q \in AllPins :
    ~SameType(p, q)
      => checkConnectionTo(Cur, p, PinPt(q))
           = ErrTypes(PinTable[p].Type, PinTable[q].Type)

\* C8 witness: a drag move met the type rejection for two pins that also share
\* a direction, and for a target that is attached to a channel
C8_Witness ==
  \E p, q \in AllPins :
    /\ dragItem = PinPt(p)
    /\ Rejected(ErrTypes(PinTable[p].Type, PinTable[q].Type))
    /\ SameDirection(p, q)
    /\ ch[q] # Nil

\* C10: disconnecting a pin from a channel of three or more pins keeps the
\* channel in the graph with the other pins attached; disconnecting it from a
\* channel of two removes the channel and empties the other pin's attachment;
\* the disconnected pin's attachment is empty either way.
C10_DisconnectLifecycle ==
  \A p \in AllPins :
    ch[p] # Nil =>
      LET c     == ch[p]
          after == disconnect(Cur, p)
          rest  == Pins[c] \ {p}
      IN /\ after.ch[p] = Nil
         /\ Cardinality(Pins[c]) >= 3 =>
              /\ c \in after.Channels
              /\ after.Pins[c] = rest
              /\ \A r \in rest : after.ch[r] = c
         /\ Cardinality(Pins[c]) = 2 =>
              /\ c \notin after.Channels
              /\ \A r \in rest : after.ch[r] = Nil

\* C10 witness: a press on a pin of a channel of three has disconnected it,
\* the channel survives with two pins and is the drag item
C10_Witness ==
  /\ dragItem.kind = "channel"
  /\ dragItem.id \in Channels
  /\ Cardinality(Pins[dragItem.id]) = 2
  /\ \E p \in AllPins :
       /\ ch[p] = Nil
       /\ [fn |-> "reallyDisconnect", pin |-> p, ch |-> Nil] \in BagToSet(goroutines)

(* ------------------------- remote calls of a drag ---------------------- *)

\* the goroutines a step starts: those waiting after it that were not before
Started(g) == CopiesIn(g, goroutines') > CopiesIn(g, goroutines)

\* C11: a drag-move that leaves the dragged pin unattached (target too far,
\* target the pin itself, or target rejected) starts no remote call
C11_InvalidMoveIsLocal ==
  [][(dragItem.kind = "pin" /\ dragItem' = dragItem /\ ch'[dragItem.id] = Nil)
       => \A g \in BagToSet(goroutines') : ~Started(g)]_vars

\* a pointer-up that ends the drag of a pin with the pin attached
DropAttached ==
  /\ dragItem.kind = "pin"
  /\ dragItem' = NoItem
  /\ ch'[dragItem.id] # Nil

Completed(g) == CopiesIn(g, goroutines') < CopiesIn(g, goroutines)

\* the label a failed call shows
Failure(prefix) ==
  [shown |-> TRUE, text |-> Text(prefix, ErrRPC), x |-> 0 + 4, y |-> 0 - 36]

\* C13: the end of a ConnectPin or DisconnectPin call, success or failure, and
\* whatever the pointer has done since, leaves every pin's attachment, every
\* channel's pin set, the channel map and the drag item as they are; it starts
\* no new call, and the only thing it may change on the client is the label
C13_AnswerChangesNothing ==
  [][\A g \in BagToSet(goroutines) :
       (Completed(g) /\ g.fn \in {"reallyConnect", "reallyDisconnect"})
         => /\ ch' = ch
            /\ Channels' = Channels
            /\ \A c \in Channels : Pins'[c] = Pins[c]
            /\ dragItem' = dragItem
            /\ created' = created
            /\ \A h \in BagToSet(goroutines') : ~Started(h)
            /\ \/ errLabel' = errLabel
               \/ errLabel' = Failure("Couldn't connect: ")
               \/ errLabel' = Failure("Couldn't disconnect: ")]_vars

\* a ConnectPin call has failed during a later drag and the pin is still on
\* its channel
C13_Witness ==
  /\ errLabel = Failure("Couldn't connect: ")
  /\ dragItem # NoItem
  /\ goroutines = EmptyBag
  /\ \E p \in AllPins : ch[p] # Nil /\ created[ch[p]] /\ ch[p] \in Channels

\* C14: the label of a failed ConnectPin or DisconnectPin call is placed where
\* setError puts a message for the pointer position of the interaction
C14_FailureAtPointer ==
  (errLabel.shown
     /\ errLabel.text.prefix \in {"Couldn't connect: ", "Couldn't disconnect: "})
    => \E pos \in CursorPos :
         errLabel = setError(Cur, errLabel.text, pos[1], pos[2]).errLabel

\* the label a failed call of goroutine g shows
FailureOf(g) ==
  CASE g.fn = "reallyConnect"    -> Failure("Couldn't connect: ")
    [] g.fn = "reallyDisconnect" -> Failure("Couldn't disconnect: ")
    [] g.fn = "reallyCreate"     -> Failure("Couldn't create: ")

\* a step in which the call of goroutine g is answered with success: g ends,
\* nothing panics and the label, which did not show g's failure, is untouched
Succeeded(g) ==
  /\ Completed(g)
  /\ ~crashed'
  /\ errLabel # FailureOf(g)
  /\ errLabel' = errLabel

Pressed == dragItem = NoItem /\ dragItem' # NoItem

\* the press of a free pin p: p is the drag item, nothing else changes
PressedFree(p) ==
  /\ ch[p] = Nil
  /\ dragItem' = PinPt(p)
  /\ ch' = ch
  /\ Channels' = Channels
  /\ \A c \in Channels : Pins'[c] = Pins[c]
  /\ goroutines' = goroutines

\* the press of a pin p attached to channel c: p is taken off c, one
\* DisconnectPin call for p is started, and the drag goes on from what is left:
\* from c itself when c keeps two or more pins, and from the last pin, with c
\* deleted, when c keeps one
PressedAttached(p) ==
  LET c == ch[p] IN
  /\ c # Nil
  /\ ch'[p] = Nil
  /\ p \notin Pins'[c]
  /\ goroutines' = goroutines (+) SetToBag({[fn |-> "reallyDisconnect", pin |-> p, ch |-> Nil]})
  /\ dragItem' # PinPt(p)
  /\ IF Cardinality(Pins[c]) > 2
       THEN /\ c \in Channels'
            /\ Channels' = Channels
            /\ Pins'[c] = Pins[c] \ {p}
            /\ \A q \in AllPins \ {p} : ch'[q] = ch[q]
            /\ dragItem' = ChanPt(c)
       ELSE /\ Channels' = Channels \ {c}
            /\ \A q \in Pins[c] : ch'[q] = Nil
            /\ \A q \in AllPins \ Pins[c] : ch'[q] = ch[q]
            /\ \E q \in Pins[c] \ {p} : dragItem' = PinPt(q)

\* C16: every press is the press of a free pin, which becomes the drag item
\* with no attachment changed, or of an attached pin, which is detached with
\* one disconnect call and does not become the drag item, the drag going on
\* from the channel's end when the channel keeps two or more pins
C16_DragStart ==
  [][Pressed => \E p \in AllPins : PressedFree(p) \/ PressedAttached(p)]_vars

\* a pin has been pressed off a confirmed channel, which is now the drag item
C16_Witness ==
  /\ dragItem.kind = "channel"
  /\ dragItem.id \in Channels
  /\ created[dragItem.id]
  /\ cp[dragItem.id] = Nil
  /\ \E p \in AllPins :
       /\ ch[p] = Nil
       /\ goroutines = SetToBag({[fn |-> "reallyDisconnect", pin |-> p, ch |-> Nil]})

(* ------------------------------- release ------------------------------- *)

\* Pin.drag's decision for pin p and nearest point q at squared distance d
ValidSnap(G, p, q, d) ==
  /\ q # PinPt(p)
  /\ d < snapQuad
  /\ checkConnectionTo(G, p, q) = NoErr

\* C17: with no drag in progress a pointer-move and a pointer-up change
\* nothing; a pointer-up during a drag ends the drag; and for a dragged pin p,
\* whatever the earlier moves did, a drag evaluation leaves p attached exactly
\* if it is a valid snap, and a pointer-up is that evaluation at the release
\* point followed by the drop: the same attachments, the label cleared and one
\* more call started
C17_ReleaseEndsDrag ==
  \A q \in Points(Cur), d \in Dists, pos \in CursorPos :
    LET M == mouseMove(Cur, q, d, pos)
        U == mouseUp(Cur, q, d, pos)
    IN /\ dragItem = NoItem => (M = Cur /\ U = Cur)
       /\ U.dragItem = NoItem
       /\ dragItem.kind = "pin" =>
            LET p == dragItem.id IN
            /\ M = drag(Cur, p, q, d, pos)
            /\ (M.ch[p] # Nil) <=> ValidSnap(Cur, p, q, d)
            /\ (U.ch[p] # Nil) <=> ValidSnap(Cur, p, q, d)
            /\ U.ch = M.ch
            /\ U.Pins = M.Pins
            /\ U.Channels = M.Channels
            /\ U.errLabel = Hidden
            /\ BagCardinality(U.goroutines) = BagCardinality(M.goroutines) + 1

\* a dragged pin was released out of reach: the drag is over, the pin is
\* free, no label is shown and the disconnect call of the drop waits
C17_Witness ==
  /\ dragItem = NoItem
  /\ Channels = {}
  /\ ~errLabel.shown
  /\ \E p \in AllPins :
       /\ ch[p] = Nil
       /\ goroutines = SetToBag({[fn |-> "reallyDisconnect", pin |-> p, ch |-> Nil]})

\* C18: a nearest point is out of reach only when its squared distance
\* exceeds snapQuad: at squared distance exactly snapQuad a point other than
\* the dragged pin is validated and, if approved, connected
C18_ReachAtThreshold ==
  dragItem.kind = "pin" =>
    \A q \in Points(Cur) \ {dragItem}, d \in Dists, pos \in CursorPos :
      LET p == dragItem.id
          R == drag(Cur, p, q, d, pos)
      IN /\ d > snapQuad => (R.ch[p] = Nil /\ R.errLabel = Hidden)
         /\ (d <= snapQuad /\ checkConnectionTo(Cur, p, q) = NoErr) => R.ch[p] # Nil
         /\ (d <= snapQuad /\ checkConnectionTo(Cur, p, q) # NoErr) => R.errLabel.shown

(* ------------------------------ node names ----------------------------- *)

\* C19: no two nodes that CreateNode has returned have the same name
C19_UniqueNames == \A name \in BagToSet(made) : CopiesIn(name, made) = 1

(* --------------------- client and remote authority --------------------- *)

\* the calls that name pin p and have not been answered
Outstanding(p) == { g \in BagToSet(goroutines) : g.pin = p }

\* C20: when every call succeeds, no drag is in progress and no call for pin
\* p is outstanding, the remote authority has p where the client has it: on
\* no channel if p is unattached, on p's channel if that channel is created
C20_RemoteAgrees ==
  dragItem = NoItem =>
    \A p \in AllPins :
      Outstanding(p) = {} =>
        /\ ch[p] = Nil => remote[p] = Nil
        /\ (ch[p] # Nil /\ created[ch[p]]) => remote[p] = ch[p]

(* ------------------- the connect request of a drop --------------------- *)

\* C21: whatever the pointer does before the goroutine of a drop's connect
\* request runs, the pin is still attached when reallyConnect reads p.ch: no
\* waiting reallyConnect belongs to an unattached pin and none has panicked
C21_ConnectReadsAttached ==
  /\ ~crashed
  /\ \A p \in AllPins :
       [fn |-> "reallyConnect", pin |-> p, ch |-> Nil] \in BagToSet(goroutines)
         => ch[p] # Nil

(* ------------------------- graph controller calls ---------------------- *)

\* C22: the graph's Name, PackagePath and IsCommand change only when a
\* SetGraphProperties call is answered with success, and then to the values
\* of that request; a failed SaveProperties returns the error and leaves them
\* alone; a failed CreateNode returns the error and no node; and the node map
\* changes only when the caller of a successful CreateNode adds the returned
\* node: neither operation writes the node map or the channel map itself
C22_CommitAfterAnswer ==
  [][/\ BagCardinality(saves') >= BagCardinality(saves) => graph' = graph
     /\ \A req \in BagToSet(saves) :
          CopiesIn(req, saves') < CopiesIn(req, saves)
            => /\ returned'.op = "SaveProperties"
               /\ returned'.err => graph' = graph
               /\ ~returned'.err =>
                    /\ graph'.Name = req.Name
                    /\ graph'.PackagePath = req.PackagePath
                    /\ graph'.IsCommand = req.IsCommand
               /\ Nodes' = Nodes
     /\ \A call \in BagToSet(calls) :
          (CopiesIn(call, calls') < CopiesIn(call, calls) /\ returned'.err)
            => /\ returned'.op = "CreateNode"
               /\ returned'.node = ""
               /\ made' = made
               /\ Nodes' = Nodes
     /\ Nodes' # Nodes =>
          /\ returned' = [op |-> "CreateNode", err |-> FALSE, node |-> returned'.node]
          /\ Nodes' = addNode(Nodes, returned'.node)
     /\ Channels' = Channels
    ]_vars

\* a SaveProperties call has failed after an earlier one succeeded: the graph
\* keeps the values of the earlier request
C22_Witness ==
  /\ returned = [op |-> "SaveProperties", err |-> TRUE, node |-> ""]
  /\ saves = EmptyBag
  /\ graph \in FormValues

====
